---- MODULE Spec2Model ----
(***************************************************************************)
(* winebasin: the privileged mount session of `system shell` / `system    *)
(* run` (src/src/main.rs, mount_prefix and main) and the `basis check`     *)
(* command.  The parent process (main) and the elevated shell              *)
(* (`sudo --close-from 4 bash -eu`) are two processes that talk through    *)
(* the shell's standard input and a private pipe on the shell's fd 3.      *)
(***************************************************************************)
EXTENDS Integers, Sequences, FiniteSets

\* ---------------------------------------------------------------- bounds
\* Timestamps (seconds) are drawn from 0..MaxTime.
MaxTime == 1
\* Lines other than markers that may show up on the private pipe in one run.
MaxStray == 1
\* Number of words of the command line given to `system shell` / `system run`.
MaxCmdLen == 1

VARIABLES
    \* inputs of the invocation (command line and file system)
    cmd,          \* "basis_check" | "system_shell" | "system_run" | "system_path"
    cmdLen,       \* number of words in args.command
    tsFile,       \* prefix/.update-timestamp: [exists, text], text its bytes as characters
    infMtime,     \* wine.inf: [exists, mtime], mtime its st_mtime
    sysCfg,       \* {system}/config.json: "absent" | "unknown" | "v1"
    basisCfg,     \* basis dir: "nodir" | "absent" | "unknown" | "v1" (its config.json)
    system_name,  \* args.system_name
    basis_name,   \* basis_name of the system's config (SystemConfigV1)
    \* parent process
    pc,           \* position of main
    call,         \* statement of the running sudo_exec: "none" | "mount" | "umount"
    i,            \* the counter captured by the sudo_exec closure
    want_i,       \* want_i of the running sudo_exec
    result,       \* outcome of main's closure: "none" | "ok" | "err" | "panic" | "abort"
    exitCode,     \* process exit status, -1 while running
    printed,      \* what was printed on standard output
    guard,        \* the Box<dyn Drop> of mount_prefix: "none" | "held" | "released" |
                  \* "aborted" (its drop panicked)
    sudo,         \* the Child handle the parent holds: 0 = none, else its pid
    sudo_write,   \* TRUE while the parent holds the shell's standard input open
    warnings,     \* records logged with StandardFlag::Warning
    waited,       \* "no" | "status" (wait returned a status) | "error"
    \* channel
    stdin,        \* what was written to the shell's standard input and not yet read by it
    pipe3,        \* lines written to fd 3 and not yet read by the parent
    \* elevated shell and the mount table
    child,        \* "none" | "running" | "exited"
    childStatus,  \* "none" | "zero" | "nonzero" | "signal"
    mounted,      \* TRUE iff the mount table has an entry for the system's mount path
    mountRes,     \* how the mount statement ended in the shell: "none" | "ok" | "fail"
    umountRes,    \* how the umount statement ended in the shell: "none" | "ok" | "fail"
    strays,       \* stray lines written to fd 3 so far
    \* history (observation only)
    acked,        \* acknowledgments observed by the parent, in order
    submitted,    \* statements handed to sudo_exec, in order
    written,      \* statement lines that reached the shell's standard input
    execLog,      \* one record per sudo_exec return
    spawnCount,   \* elevated processes spawned
    markers,      \* one record per want_i computed: the statement's index and its marker
    merged        \* the mount path the caller's work was given, <<>> before

inputs == <<cmd, cmdLen, tsFile, infMtime, sysCfg, basisCfg, system_name, basis_name>>
parentVars == <<pc, call, i, want_i, result, exitCode, printed, guard, sudo, sudo_write,
                warnings, waited>>
chanVars == <<stdin, pipe3>>
childVars == <<child, childStatus, mounted, mountRes, umountRes, strays>>
histVars == <<acked, submitted, written, execLog, spawnCount>>
auxVars == <<markers, merged>>
vars == <<inputs, parentVars, chanVars, childVars, histVars, auxVars>>

\* ------------------------------------------------------------ pure helpers
Digits == <<"0", "1", "2", "3", "4", "5", "6", "7", "8", "9">>

\* i.to_string() as a sequence of characters
RECURSIVE ToDecimal(_)
ToDecimal(n) ==
    IF n < 10 THEN <<Digits[n + 1]>>
    ELSE ToDecimal(n \div 10) \o <<Digits[(n % 10) + 1]>>

IsSpace(c) == c \in {" ", "\t", "\r", "\n"}

RECURSIVE TrimStart(_)
TrimStart(s) ==
    IF s # <<>> /\ IsSpace(Head(s)) THEN TrimStart(Tail(s)) ELSE s

RECURSIVE TrimEnd(_)
TrimEnd(s) ==
    IF s # <<>> /\ IsSpace(s[Len(s)]) THEN TrimEnd(SubSeq(s, 1, Len(s) - 1)) ELSE s

\* str::trim
Trim(s) == TrimEnd(TrimStart(s))

\* A line as the BufReader's lines() yields it: Err (invalid UTF-8) or Ok(text)
Line(t) == [err |-> FALSE, text |-> t]
BadLine == [err |-> TRUE, text |-> <<>>]
StrayLines == {Line(<<"x">>), BadLine}

\* `echo {want_i} >&3` as bash runs it: one line on fd 3
Echo(marker) == Line(marker)

\* i64::from_str_radix(s, 10): digits only here, anything else is a parse error
RECURSIVE DigitsValue(_)
DigitsValue(s) ==
    IF s = <<>> THEN 0
    ELSE 10 * DigitsValue(SubSeq(s, 1, Len(s) - 1))
         + (CHOOSE d \in 0..9 : Digits[d + 1] = s[Len(s)])

ParseI64(s) ==
    IF s # <<>> /\ \A k \in 1..Len(s) : \E d \in 1..10 : Digits[d] = s[k]
    THEN [err |-> FALSE, val |-> DigitsValue(s)]
    ELSE [err |-> TRUE, val |-> 0]

\* basis_needs_update: Err, or Ok(have_time < st_mtime of wine.inf)
NeedsUpdate(have, mtime) == have < mtime

basis_needs_update ==
    IF basisCfg = "nodir" THEN [err |-> TRUE, val |-> FALSE]
    ELSE IF ~tsFile.exists THEN [err |-> TRUE, val |-> FALSE]
    ELSE IF ParseI64(Trim(tsFile.text)).err THEN [err |-> TRUE, val |-> FALSE]
    ELSE IF ~infMtime.exists THEN [err |-> TRUE, val |-> FALSE]
    ELSE [err |-> FALSE,
          val |-> NeedsUpdate(ParseI64(Trim(tsFile.text)).val, infMtime.mtime)]

\* the process exit status main ends with: Ok, fatal(e), an unwinding panic, or an
\* abort (a panic while unwinding)
ExitStatus(r) == CASE r = "ok" -> 0 [] r = "err" -> 1 [] r = "abort" -> 134 [] OTHER -> 101

\* ---------------------------------------------------------------- quoting
\* a path component that holds a NUL byte (a Path is any sequence of bytes)
NulComponents == {"s\\0", "b\\0"}

HasNul(arg) == \E k \in DOMAIN arg : arg[k] \in NulComponents

\* shlex::bytes::try_quote: Err when the argument holds a NUL byte, else a shell word
\* that the shell reads back as the argument
try_quote(arg) ==
    IF HasNul(arg) THEN [err |-> TRUE, word |-> <<>>]
    ELSE [err |-> FALSE, word |-> <<"'">> \o arg \o <<"'">>]

\* the shell's reading of a word try_quote made
ShellWord(word) == SubSeq(word, 2, Len(word) - 1)

\* ---------------------------------------------------- layer path resolver
\* a path is the sequence of its components
root_dir == <<"root">>

basis_path(name) == root_dir \o <<"basis", name>>

basis_config_path(path) == path \o <<"config.json">>

basis_prefix_path(path) == path \o <<"prefix">>

system_path(name) == root_dir \o <<"system", name>>

system_config_path(path) == path \o <<"config.json">>

system_prefix_path(path) == path \o <<"prefix">>

system_overlay_work_path(path) == path \o <<"overlay_work">>

\* variant: the merged view is put on the upper layer's directory
system_mount_path_Prefix(path) == path \o <<"prefix">>

system_mount_path(path) == path \o <<"mount">>

\* the argument vector of the mount statement, before quoting
MountStatement ==
    [op |-> "mount", types |-> "overlay", source |-> "overlay",
     lowerdir |-> basis_prefix_path(basis_path(basis_name)),
     upperdir |-> system_prefix_path(system_path(system_name)),
     workdir |-> system_overlay_work_path(system_path(system_name)),
     metacopy |-> "off", index |-> "off",
     target |-> system_mount_path(system_path(system_name))]

\* the argument vector of the unmount statement, before quoting
UmountStatement ==
    [op |-> "umount", target |-> system_mount_path(system_path(system_name))]

Statement(c) == IF c = "mount" THEN MountStatement ELSE UmountStatement

\* the arguments of a statement that are made of path bytes, in order (the other
\* arguments are literals); the three layer paths are one argument, the --options value
PathArgs(stmt) ==
    IF stmt.op = "mount"
    THEN <<stmt.lowerdir \o stmt.upperdir \o stmt.workdir, stmt.target>>
    ELSE <<stmt.target>>

\* quote_subcommand: try_quote of each argument in turn, `?` on the first error; the
\* line is the statement with every argument as its shell word
quote_subcommand(stmt) ==
    IF \E k \in DOMAIN PathArgs(stmt) : try_quote(PathArgs(stmt)[k]).err
    THEN [err |-> TRUE, line |-> <<>>]
    ELSE [err |-> FALSE,
          line |-> [f \in DOMAIN stmt |->
                        IF f \in {"lowerdir", "upperdir", "workdir", "target"}
                        THEN try_quote(stmt[f]).word ELSE stmt[f]]]

\* the statement the shell reads from a line quote_subcommand made
ShellReads(line) ==
    [f \in DOMAIN line |->
         IF f \in {"lowerdir", "upperdir", "workdir", "target"}
         THEN ShellWord(line[f]) ELSE line[f]]

\* --------------------------------------------------------------- initial
SystemNames == {"s1", "s2"}

BasisNames == {"b1", "b2"}

TsFiles ==
    {[exists |-> FALSE, text |-> <<>>], [exists |-> TRUE, text |-> <<"x", "\n">>]}
    \cup {[exists |-> TRUE, text |-> ToDecimal(n) \o <<"\n">>] : n \in 0..MaxTime}

InfFiles ==
    {[exists |-> FALSE, mtime |-> 0]} \cup {[exists |-> TRUE, mtime |-> n] : n \in 0..MaxTime}

Init ==
    /\ cmd \in {"basis_check", "system_shell", "system_run", "system_path"}
    /\ tsFile \in TsFiles
    /\ infMtime \in InfFiles
    /\ IF cmd = "basis_check"
       THEN /\ cmdLen = 0
            /\ sysCfg = "absent"
            /\ basisCfg \in {"nodir", "v1"}
       ELSE IF cmd = "system_path"
       THEN /\ cmdLen = 0
            /\ sysCfg \in {"absent", "unknown", "v1"}
            /\ basisCfg = "v1"
       ELSE /\ cmdLen \in 0..MaxCmdLen
            /\ sysCfg \in {"absent", "unknown", "v1"}
            /\ basisCfg \in {"nodir", "absent", "unknown", "v1"}
    /\ system_name \in SystemNames
    /\ basis_name \in (IF cmd = "basis_check" THEN {"b1"} ELSE BasisNames)
    /\ pc = "main"
    /\ call = "none"
    /\ i = 0
    /\ want_i = <<>>
    /\ result = "none"
    /\ exitCode = -1
    /\ printed = "none"
    /\ guard = "none"
    /\ sudo = 0
    /\ sudo_write = FALSE
    /\ warnings = 0
    /\ waited = "no"
    /\ stdin = <<>>
    /\ pipe3 = <<>>
    /\ child = "none"
    /\ childStatus = "none"
    /\ mounted = FALSE
    /\ mountRes = "none"
    /\ umountRes = "none"
    /\ strays = 0
    /\ acked = <<>>
    /\ submitted = <<>>
    /\ written = <<>>
    /\ execLog = <<>>
    /\ spawnCount = 0
    /\ markers = <<>>
    /\ merged = <<>>

\* ------------------------------------------------- main, before the mount
\* main's closure returns Err before any guard exists
Fail ==
    /\ result' = "err"
    /\ pc' = "exit"

\* BasisArgs::Check
BasisCheck ==
    /\ pc = "main"
    /\ cmd = "basis_check"
    /\ IF basis_needs_update.err
       THEN Fail /\ UNCHANGED printed
       ELSE /\ printed' = (IF basis_needs_update.val THEN "true" ELSE "false")
            /\ result' = "ok"
            /\ pc' = "exit"
    /\ UNCHANGED <<inputs, auxVars, call, i, want_i, exitCode, guard, sudo, sudo_write, warnings,
                   waited, chanVars, childVars, histVars>>

\* variant: a record with an unrecognised tag is read as a default config
read_config_Default(c) == IF c \in {"v1", "unknown"} THEN "ok" ELSE "err"

\* variant: a missing file is read as a default config
read_config_Missing(c) == IF c = "unknown" THEN "err" ELSE "ok"

\* fs::read(config_path) and serde_json::from_slice of the tagged enum, matched on
\* V1: only a readable record tagged V1 gives a config
read_config(c) == IF c = "v1" THEN "ok" ELSE "err"

\* SystemArgs::Path
SystemPath ==
    /\ pc = "main"
    /\ cmd = "system_path"
    /\ printed' = "path"
    /\ result' = "ok"
    /\ pc' = "exit"
    /\ UNCHANGED <<inputs, auxVars, call, i, want_i, exitCode, guard, sudo, sudo_write,
                   warnings, waited, chanVars, childVars, histVars>>

\* check_system, called by SystemArgs::Shell and SystemArgs::Run
check_system ==
    /\ pc = "main"
    /\ cmd \in {"system_shell", "system_run"}
    /\ IF read_config(sysCfg) = "ok"
       THEN pc' = "update_basis" /\ UNCHANGED result
       ELSE Fail
    /\ UNCHANGED <<inputs, auxVars, call, i, want_i, exitCode, printed, guard, sudo, sudo_write,
                   warnings, waited, chanVars, childVars, histVars>>

\* update_basis: read the config, then run wine once when the basis needs an update
update_basis ==
    /\ pc = "update_basis"
    /\ \E wineOk \in BOOLEAN :
         IF read_config(basisCfg) # "ok" THEN Fail
         ELSE IF basis_needs_update.err THEN Fail
         ELSE IF basis_needs_update.val /\ ~wineOk THEN Fail
         ELSE pc' = "mount_prefix" /\ UNCHANGED result
    /\ UNCHANGED <<inputs, auxVars, call, i, want_i, exitCode, printed, guard, sudo, sudo_write,
                   warnings, waited, chanVars, childVars, histVars>>

\* main ends: Ok(_) => {}, Err(e) => fatal(e); a panic unwinds out of main
Exit ==
    /\ pc = "exit"
    /\ exitCode' = ExitStatus(result)
    /\ pc' = "done"
    /\ UNCHANGED <<inputs, auxVars, call, i, want_i, result, printed, guard, sudo, sudo_write,
                   warnings, waited, chanVars, childVars, histVars>>

\* ------------------------------------------------------------ mount_prefix
Token(t, s, m) == [t |-> t, s |-> s, m |-> m]

\* root_dir, create_dir_all, pipe and the spawn of `sudo --close-from 4 bash -eu`
mount_prefix_spawn ==
    /\ pc = "mount_prefix"
    /\ \E ok \in BOOLEAN :
         IF ok
         THEN /\ spawnCount' = spawnCount + 1
              /\ sudo' = spawnCount + 1
              /\ sudo_write' = TRUE
              /\ child' = "running"
              /\ pc' = "mount"
              /\ UNCHANGED result
         ELSE /\ Fail
              /\ UNCHANGED <<spawnCount, sudo, sudo_write, child>>
    /\ UNCHANGED <<inputs, auxVars, call, i, want_i, exitCode, printed, guard, warnings, waited,
                   chanVars, childStatus, mounted, mountRes, umountRes, strays,
                   acked, submitted, written, execLog>>

\* variant: the error return keeps the shell's standard input open
MountPrefixErr_KeepOpen ==
    /\ Fail
    /\ UNCHANGED sudo_write

\* `?` inside mount_prefix after the spawn: the function returns Err, its locals
\* sudo_exec (with sudo_write and sudo_read) and sudo are dropped, nothing waits
MountPrefixErr ==
    /\ Fail
    /\ sudo_write' = FALSE

\* variant: the mount statement is submitted whatever the quoting returned
mount_prefix_mount_Unchecked ==
    /\ pc = "mount"
    /\ call' = "mount"
    /\ submitted' = Append(submitted, "mount")
    /\ pc' = "exec_line"
    /\ UNCHANGED <<inputs, auxVars, i, want_i, result, exitCode, printed, guard, sudo, sudo_write,
                   warnings, waited, chanVars, childVars, acked, written, execLog,
                   spawnCount>>

\* quote_subcommand(["mount", ...])?, then sudo_exec(..) is entered
mount_prefix_mount ==
    /\ pc = "mount"
    /\ IF quote_subcommand(MountStatement).err
       THEN /\ MountPrefixErr
            /\ UNCHANGED <<call, submitted>>
       ELSE /\ call' = "mount"
            /\ submitted' = Append(submitted, "mount")
            /\ pc' = "exec_line"
            /\ UNCHANGED <<result, sudo_write>>
    /\ UNCHANGED <<inputs, auxVars, i, want_i, exitCode, printed, guard, sudo,
                   warnings, waited, chanVars, childVars, acked, written, execLog,
                   spawnCount>>

\* variant: the failure is discarded instead of logged
LogWarning_Dropped(w) == w

\* log.log_with(StandardFlag::Warning, ..) and .log(&log, StandardFlag::Warning, ..)
LogWarning(w) == w + 1

\* variant: the closure waits without drop(sudo_exec), standard input stays open
ExecReturn_NoDrop(res, sawMarker) ==
    /\ execLog' = Append(execLog, [call |-> call, res |-> res, marker |-> sawMarker])
    /\ call' = "none"
    /\ IF call = "mount"
       THEN IF res = "ok"
            THEN /\ guard' = "held"
                 /\ pc' = "work"
                 /\ UNCHANGED <<result, sudo_write, warnings>>
            ELSE /\ Fail
                 /\ sudo_write' = FALSE
                 /\ UNCHANGED <<guard, warnings>>
       ELSE IF res = "ok"
            THEN /\ pc' = "rel_wait"
                 /\ UNCHANGED <<guard, result, warnings, sudo_write>>
            ELSE /\ sudo_write' = FALSE
                 /\ warnings' = LogWarning(warnings)
                 /\ guard' = "released"
                 /\ pc' = "exit"
                 /\ UNCHANGED result

\* what follows the return of sudo_exec: for the mount, `?` and the guard; for the
\* umount (inside the guard's closure), `?`, then drop(sudo_exec)
ExecReturn(res, sawMarker) ==
    /\ execLog' = Append(execLog, [call |-> call, res |-> res, marker |-> sawMarker])
    /\ call' = "none"
    /\ IF call = "mount"
       THEN IF res = "ok"
            THEN /\ guard' = "held"
                 /\ pc' = "work"
                 /\ UNCHANGED <<result, sudo_write, warnings>>
            ELSE /\ MountPrefixErr
                 /\ UNCHANGED <<guard, warnings>>
       ELSE IF res = "ok"
            THEN /\ sudo_write' = FALSE
                 /\ pc' = "rel_wait"
                 /\ UNCHANGED <<guard, result, warnings>>
            ELSE /\ sudo_write' = FALSE
                 /\ warnings' = LogWarning(warnings)
                 /\ guard' = "released"
                 /\ pc' = "exit"
                 /\ UNCHANGED result

\* a write to the shell's standard input succeeds while the shell holds its read end
WriteOk == child = "running"

\* variant: the counter is not advanced
NextI_Stuck(n) == n

\* i += 1
NextI(n) == n + 1

\* sudo_write.write_all(line)?
ExecWriteLine ==
    /\ pc = "exec_line"
    /\ IF WriteOk
       THEN /\ stdin' = Append(stdin, Token("line", call,
                                             quote_subcommand(Statement(call)).line))
            /\ written' = Append(written,
                   [stmt |-> call, pid |-> sudo,
                    text |-> ShellReads(quote_subcommand(Statement(call)).line)])
            /\ pc' = "exec_term"
            /\ UNCHANGED <<call, guard, result, sudo_write, warnings, execLog>>
       ELSE /\ ExecReturn("err", FALSE)
            /\ UNCHANGED <<stdin, written>>
    /\ UNCHANGED <<inputs, auxVars, i, want_i, exitCode, printed, sudo, waited, pipe3, childVars,
                   acked, submitted, spawnCount>>

\* sudo_write.write_all(b";\n")?; let want_i = i.to_string(); i += 1;
ExecWriteTerm ==
    /\ pc = "exec_term"
    /\ IF WriteOk
       THEN /\ stdin' = Append(stdin, Token("term", call, <<>>))
            /\ want_i' = ToDecimal(i)
            /\ i' = NextI(i)
            /\ markers' = Append(markers, [stmt |-> Len(submitted) - 1,
                                           marker |-> ToDecimal(i)])
            /\ pc' = "exec_echo"
            /\ UNCHANGED <<call, guard, result, sudo_write, warnings, execLog>>
       ELSE /\ ExecReturn("err", FALSE)
            /\ UNCHANGED <<stdin, want_i, i, markers>>
    /\ UNCHANGED <<inputs, merged, exitCode, printed, sudo, waited, pipe3, childVars,
                   acked, submitted, written, spawnCount>>

\* sudo_write.write_all(b"echo {want_i} >&3;\n")?; sudo_write.flush()?;
ExecWriteEcho ==
    /\ pc = "exec_echo"
    /\ IF WriteOk
       THEN /\ stdin' = Append(stdin, Token("echo", call, want_i))
            /\ pc' = "exec_read"
            /\ UNCHANGED <<call, guard, result, sudo_write, warnings, execLog>>
       ELSE /\ ExecReturn("err", FALSE)
            /\ UNCHANGED stdin
    /\ UNCHANGED <<inputs, auxVars, i, want_i, exitCode, printed, sudo, waited, pipe3, childVars,
                   acked, submitted, written, spawnCount>>

\* variant: any line is taken for the acknowledgment
LineMatches_Any(text, want) == TRUE

\* variant: the parent keeps its own copy of the pipe's write end open
PipeEof_HeldOpen == FALSE

\* sudo_read.next() is None: every holder of the write end (the shell) is gone
PipeEof == child = "exited"

\* if line == want_i (after line.trim())
LineMatches(text, want) == Trim(text) = want

\* one turn of `while let Some(line) = sudo_read.next()`: a line, or end of file once
\* every holder of the write end is gone; blocks otherwise
ExecRead ==
    /\ pc = "exec_read"
    /\ IF pipe3 # <<>>
       THEN /\ pipe3' = Tail(pipe3)
            /\ IF Head(pipe3).err
               THEN ExecReturn("err", FALSE) /\ UNCHANGED acked
               ELSE IF LineMatches(Head(pipe3).text, want_i)
               THEN /\ acked' = Append(acked, [stmt |-> Len(submitted) - 1,
                                               line |-> Head(pipe3).text])
                    /\ ExecReturn("ok", TRUE)
               ELSE UNCHANGED <<pc, call, guard, result, sudo_write, warnings, execLog,
                                acked>>
       ELSE /\ PipeEof
            /\ ExecReturn("ok", FALSE)
            /\ UNCHANGED <<pipe3, acked>>
    /\ UNCHANGED <<inputs, auxVars, i, want_i, exitCode, printed, sudo, waited, stdin, childVars,
                   submitted, written, spawnCount>>

\* ------------------------------------------------------- the caller's work
\* variant: the guard is dropped on the normal path only
ScopeExit_Leak(outcome) ==
    /\ result' = outcome
    /\ pc' = IF outcome = "ok" THEN "release" ELSE "exit"

\* the scope that holds `_mount` ends with this outcome: the guard is dropped
ScopeExit(outcome) ==
    /\ result' = outcome
    /\ pc' = "release"

\* Vec::split_off(at) panics when at > len
SplitOffPanics(len, at) == at > len

\* what split_off(at) leaves in the vector
SplitOffKeeps(len, at) == IF len < at THEN len ELSE at

\* run_shell (SystemArgs::Shell); split_off(1), pop and wine (SystemArgs::Run)
Work ==
    /\ pc = "work"
    /\ merged' = system_mount_path(system_path(system_name))
    /\ IF cmd = "system_run" /\ SplitOffPanics(cmdLen, 1)
       THEN ScopeExit("panic")
       ELSE IF cmd = "system_run" /\ SplitOffKeeps(cmdLen, 1) = 0
       THEN ScopeExit("err")
       ELSE \E ok \in BOOLEAN : ScopeExit(IF ok THEN "ok" ELSE "err")
    /\ UNCHANGED <<inputs, markers, call, i, want_i, exitCode, printed, guard, sudo, sudo_write,
                   warnings, waited, chanVars, childVars, histVars>>

\* ----------------------------------------------- release (the defer closure)
\* variant: a second elevated shell for the unmount, instead of the captured one
ReleaseStart_Respawn ==
    /\ pc = "release"
    /\ call' = "umount"
    /\ submitted' = Append(submitted, "umount")
    /\ spawnCount' = spawnCount + 1
    /\ sudo' = spawnCount + 1
    /\ pc' = "exec_line"
    /\ UNCHANGED <<inputs, auxVars, i, want_i, result, exitCode, printed, guard, sudo_write,
                   warnings, waited, chanVars, childVars, acked, written, execLog>>

\* quote_subcommand(["umount", mount_path]).unwrap(), then sudo_exec(..) is entered;
\* an Err makes unwrap panic inside the guard's drop: the closure's captures are
\* dropped by the unwinding, nothing is submitted and nothing waits
ReleaseStart ==
    /\ pc = "release"
    /\ IF quote_subcommand(UmountStatement).err
       THEN /\ guard' = "aborted"
            /\ result' = (IF result = "panic" THEN "abort" ELSE "panic")
            /\ sudo_write' = FALSE
            /\ pc' = "exit"
            /\ UNCHANGED <<call, submitted>>
       ELSE /\ call' = "umount"
            /\ submitted' = Append(submitted, "umount")
            /\ pc' = "exec_line"
            /\ UNCHANGED <<guard, result, sudo_write>>
    /\ UNCHANGED <<inputs, auxVars, i, want_i, exitCode, printed, sudo,
                   warnings, waited, chanVars, childVars, acked, written, execLog,
                   spawnCount>>

\* variant: the wait does not block
WaitReady_NoBlock == TRUE

\* wait_with_output returns once the elevated process has exited
WaitReady == child = "exited"

\* let res = sudo.wait_with_output()?; if !res.status.success() { warning }
ReleaseWait ==
    /\ pc = "rel_wait"
    /\ WaitReady
    /\ waited' = "status"
    /\ warnings' = IF childStatus # "zero" THEN LogWarning(warnings) ELSE warnings
    /\ guard' = "released"
    /\ pc' = "exit"
    /\ UNCHANGED <<inputs, auxVars, call, i, want_i, result, exitCode, printed, sudo, sudo_write,
                   chanVars, childVars, histVars>>

\* wait_with_output fails: `?`, logged by .log(.., "Error completing cleanup")
ReleaseWaitError ==
    /\ pc = "rel_wait"
    /\ waited' = "error"
    /\ warnings' = LogWarning(warnings)
    /\ guard' = "released"
    /\ pc' = "exit"
    /\ UNCHANGED <<inputs, auxVars, call, i, want_i, result, exitCode, printed, sudo, sudo_write,
                   chanVars, childVars, histVars>>

\* ------------------------------------------------------ the elevated shell
\* the shell ends: its ends of both pipes close, what it had not read is lost
ChildExit(status) ==
    /\ child' = "exited"
    /\ childStatus' = status
    /\ stdin' = <<>>

\* bash -eu runs the statement it read; a failing statement ends the shell
ShellRunStatement ==
    /\ child = "running"
    /\ Len(stdin) >= 2
    /\ stdin[1].t = "line"
    /\ stdin[2].t = "term"
    /\ \E ok \in (IF stdin[1].s = "umount" /\ ~mounted THEN {FALSE} ELSE BOOLEAN) :
         /\ IF stdin[1].s = "mount"
            THEN /\ mountRes' = (IF ok THEN "ok" ELSE "fail")
                 /\ mounted' = ok
                 /\ UNCHANGED umountRes
            ELSE /\ umountRes' = (IF ok THEN "ok" ELSE "fail")
                 /\ mounted' = (IF ok THEN FALSE ELSE mounted)
                 /\ UNCHANGED mountRes
         /\ IF ok
            THEN /\ stdin' = SubSeq(stdin, 3, Len(stdin))
                 /\ UNCHANGED <<child, childStatus>>
            ELSE ChildExit("nonzero")
    /\ UNCHANGED <<inputs, auxVars, parentVars, pipe3, strays, histVars>>

\* bash runs `echo {want_i} >&3;`
ShellRunEcho ==
    /\ child = "running"
    /\ stdin # <<>>
    /\ stdin[1].t = "echo"
    /\ stdin' = Tail(stdin)
    /\ pipe3' = Append(pipe3, Echo(stdin[1].m))
    /\ UNCHANGED <<inputs, auxVars, parentVars, childVars, histVars>>

\* end of script: the parent closed the standard input and nothing is left to read
ShellEndOfScript ==
    /\ child = "running"
    /\ stdin = <<>>
    /\ ~sudo_write
    /\ ChildExit("zero")
    /\ UNCHANGED <<inputs, auxVars, parentVars, pipe3, mounted, mountRes, umountRes, strays,
                   histVars>>

\* the elevated process is ended from outside (authentication refused, a signal)
ChildKilled ==
    /\ child = "running"
    /\ ChildExit("signal")
    /\ UNCHANGED <<inputs, auxVars, parentVars, pipe3, mounted, mountRes, umountRes, strays,
                   histVars>>

\* something other than a marker is written to fd 3, which the statements inherit
StrayLine ==
    /\ child = "running"
    /\ strays < MaxStray
    /\ \E l \in StrayLines : pipe3' = Append(pipe3, l)
    /\ strays' = strays + 1
    /\ UNCHANGED <<inputs, auxVars, parentVars, stdin, child, childStatus, mounted, mountRes,
                   umountRes, histVars>>

\* ------------------------------------------------------------ specification
Next ==
    \/ BasisCheck
    \/ SystemPath
    \/ check_system
    \/ update_basis
    \/ mount_prefix_spawn
    \/ mount_prefix_mount
    \/ ExecWriteLine
    \/ ExecWriteTerm
    \/ ExecWriteEcho
    \/ ExecRead
    \/ Work
    \/ ReleaseStart
    \/ ReleaseWait
    \/ ReleaseWaitError
    \/ Exit
    \/ ShellRunStatement
    \/ ShellRunEcho
    \/ ShellEndOfScript
    \/ ChildKilled
    \/ StrayLine

Spec == Init /\ [][Next]_vars

\* the steps main takes by itself (a failing wait is an outcome, not a duty)
ParentStep ==
    \/ BasisCheck
    \/ SystemPath
    \/ check_system
    \/ update_basis
    \/ mount_prefix_spawn
    \/ mount_prefix_mount
    \/ ExecWriteLine
    \/ ExecWriteTerm
    \/ ExecWriteEcho
    \/ ExecRead
    \/ Work
    \/ ReleaseStart
    \/ ReleaseWait
    \/ Exit

\* the steps the elevated shell takes by itself: it runs what it has read, and ends at
\* the end of its script
ShellStep ==
    \/ ShellRunStatement
    \/ ShellRunEcho
    \/ ShellEndOfScript

\* the parent runs while it is not blocked; the shell, for each statement it was
\* given, goes on to write the marker or to exit
FairSpec == Spec /\ WF_vars(ParentStep) /\ WF_vars(ShellStep)

\* mount_prefix(log, basis_path, system_path) for any two paths: a Path may hold any
\* bytes, a NUL byte included
MountInit ==
    /\ cmd \in {"system_shell", "system_run"}
    /\ cmdLen \in 0..MaxCmdLen
    /\ tsFile = [exists |-> TRUE, text |-> ToDecimal(0) \o <<"\n">>]
    /\ infMtime = [exists |-> TRUE, mtime |-> 0]
    /\ sysCfg = "v1"
    /\ basisCfg = "v1"
    /\ system_name \in SystemNames \cup {"s\\0"}
    /\ basis_name \in BasisNames \cup {"b\\0"}
    /\ pc = "mount_prefix"
    /\ call = "none"
    /\ i = 0
    /\ want_i = <<>>
    /\ result = "none"
    /\ exitCode = -1
    /\ printed = "none"
    /\ guard = "none"
    /\ sudo = 0
    /\ sudo_write = FALSE
    /\ warnings = 0
    /\ waited = "no"
    /\ stdin = <<>>
    /\ pipe3 = <<>>
    /\ child = "none"
    /\ childStatus = "none"
    /\ mounted = FALSE
    /\ mountRes = "none"
    /\ umountRes = "none"
    /\ strays = 0
    /\ acked = <<>>
    /\ submitted = <<>>
    /\ written = <<>>
    /\ execLog = <<>>
    /\ spawnCount = 0
    /\ markers = <<>>
    /\ merged = <<>>

\* mount_prefix, the caller's use of what it returned, and the end of main
MountNext ==
    \/ mount_prefix_spawn
    \/ mount_prefix_mount
    \/ ExecWriteLine
    \/ ExecWriteTerm
    \/ ExecWriteEcho
    \/ ExecRead
    \/ Work
    \/ ReleaseStart
    \/ ReleaseWait
    \/ ReleaseWaitError
    \/ Exit
    \/ ShellRunStatement
    \/ ShellRunEcho
    \/ ShellEndOfScript
    \/ ChildKilled
    \/ StrayLine

MountSpec == MountInit /\ [][MountNext]_vars

\* ------------------------------------------------------------------ claims
Count(seq, x) == Cardinality({k \in DOMAIN seq : seq[k] = x})

\* the statements whose own marker the parent has read
AckedStatements ==
    {acked[j].stmt : j \in {k \in DOMAIN acked : Trim(acked[k].line) = ToDecimal(acked[k].stmt)}}

\* C1: when the mount statement fails in the elevated shell, mount_prefix returns an
\* error: no guard is ever returned and no unmount is ever submitted.
C1_MountFailurePropagates ==
    mountRes = "fail" => guard = "none" /\ Count(submitted, "umount") = 0

\* C2: a sudo_exec call never returns success without having read its marker.
C2_OkOnlyAfterMarker ==
    \A k \in DOMAIN execLog : execLog[k].res = "ok" => execLog[k].marker

\* C3: for every guard mount_prefix returned and every way the caller's work ends (ok,
\* error, unwinding panic), the unmount statement is submitted exactly once: never
\* twice, never without a guard, and once main has left the scope, once.
C3_UnmountExactlyOnce ==
    /\ Count(submitted, "umount") <= 1
    /\ guard = "none" => Count(submitted, "umount") = 0
    /\ pc \in {"exit", "done"} /\ guard # "none" =>
           guard = "released" /\ Count(submitted, "umount") = 1

C3_Witness ==
    /\ pc = "done"
    /\ guard = "released"
    /\ result = "err"
    /\ Count(submitted, "umount") = 1

\* the release has hit one of its failures: the unmount statement failed in the shell,
\* sudo_exec returned an error (write or read), the wait failed, or the shell's exit
\* status was not success
ReleaseFailed ==
    \/ umountRes = "fail"
    \/ \E k \in DOMAIN execLog : execLog[k].call = "umount" /\ execLog[k].res = "err"
    \/ waited = "error"
    \/ waited = "status" /\ childStatus # "zero"

InRelease == guard = "held" /\ pc \in {"release", "exec_line", "exec_term", "exec_echo",
                                        "exec_read", "rel_wait"}

\* C4: release never propagates a failure: while the release runs the caller's result
\* does not change, the exit status is the one of the caller's own result, and a
\* release that failed has recorded a warning.
C4_ReleaseNeverPropagates ==
    /\ [][InRelease => result' = result]_vars
    /\ [](guard = "released" /\ ReleaseFailed => warnings >= 1)
    /\ [](pc = "done" => exitCode = ExitStatus(result))

C4_Witness ==
    /\ pc = "done"
    /\ guard = "released"
    /\ umountRes = "fail"
    /\ result = "ok"
    /\ exitCode = 0
    /\ warnings = 1

\* C5: whatever the outcome of submitting the unmount statement, when release has
\* finished the shell's standard input is closed and the parent has waited for it.
C5_ReleaseClosesAndWaits ==
    guard = "released" => ~sudo_write /\ waited # "no"

\* C6: acknowledgments are observed in submission order: the j-th acknowledgment the
\* parent observes is the marker of the j-th statement it submitted.
C6_AcksInSubmissionOrder ==
    \A j \in DOMAIN acked :
        /\ acked[j].stmt = j - 1
        /\ Trim(acked[j].line) = ToDecimal(j - 1)

C6_Witness ==
    /\ Len(acked) = 2
    /\ submitted = <<"mount", "umount">>

\* C7: at most one statement is in flight: every statement line that reached the
\* shell, but at most one, has had its marker read, and the unmount line reaches the
\* shell only after the mount's marker was read.
C7_OneStatementInFlight ==
    /\ Len(written) <= Cardinality(AckedStatements) + 1
    /\ (\E k \in DOMAIN written : written[k].stmt = "umount") => 0 \in AckedStatements

C7_Witness ==
    /\ Len(written) = 2
    /\ written[2].stmt = "umount"
    /\ AckedStatements = {0}
    /\ pc = "exec_read"

\* C8: a session spawns exactly one elevated process and every statement of the
\* session is written to that process.
C8_OneElevatedProcess ==
    /\ spawnCount <= 1
    /\ guard # "none" => spawnCount = 1
    /\ \A k \in DOMAIN written : written[k].pid = 1

C8_Witness ==
    /\ spawnCount = 1
    /\ Len(written) = 2
    /\ written[1].stmt = "mount"
    /\ written[2].stmt = "umount"
    /\ guard = "released"

C10_CheckExitStatus ==
    pc = "done" /\ cmd = "basis_check" /\ ~basis_needs_update.err =>
        exitCode = (IF basis_needs_update.val THEN 1 ELSE 0)

SystemCommands == {"system_shell", "system_run", "system_path"}

\* C11: `system shell`, `system run` and `system path` create the system when it does
\* not exist: once the command has ended, the system's config exists.  (No step of
\* these commands writes the config, so sysCfg is what it was at the start.)
C11_CreatesMissingSystem ==
    pc = "done" /\ cmd \in SystemCommands => sysCfg # "absent"

\* C12: a basis or system config record with an unrecognised version tag, once read,
\* gives an error outcome: main ends with an error, not a panic, and nothing that
\* would use a config (the elevated shell, the mount) is started.
C12_UnknownVersionIsError ==
    /\ cmd \in {"system_shell", "system_run"} /\ sysCfg = "unknown" /\ pc # "main" =>
           pc \in {"exit", "done"} /\ result = "err" /\ spawnCount = 0
    /\ cmd \in {"system_shell", "system_run"} /\ basisCfg = "unknown"
         /\ pc \notin {"main", "update_basis"} =>
           pc \in {"exit", "done"} /\ result = "err" /\ spawnCount = 0

C12_Witness ==
    /\ pc = "done"
    /\ cmd = "system_shell"
    /\ sysCfg = "v1"
    /\ basisCfg = "unknown"
    /\ result = "err"
    /\ exitCode = 1

\* C13: the one mount statement of a session has the basis's prefix as lower layer
\* only, the system's prefix as upper layer, the system's overlay_work as work
\* directory and {system dir}/mount as mount point; the path given to the caller's
\* work and the path of the unmount statement are that mount point.
C13_MountLayout ==
    /\ Cardinality({k \in DOMAIN written : written[k].stmt = "mount"}) <= 1
    /\ \A k \in DOMAIN written :
         IF written[k].stmt = "mount"
         THEN /\ written[k].text.op = "mount"
              /\ written[k].text.lowerdir = <<"root", "basis", basis_name, "prefix">>
              /\ written[k].text.upperdir = <<"root", "system", system_name, "prefix">>
              /\ written[k].text.workdir = <<"root", "system", system_name, "overlay_work">>
              /\ written[k].text.target = <<"root", "system", system_name, "mount">>
              /\ written[k].text.lowerdir \notin
                     {written[k].text.upperdir, written[k].text.workdir,
                      written[k].text.target}
         ELSE /\ written[k].text.op = "umount"
              /\ written[k].text.target = <<"root", "system", system_name, "mount">>
    /\ merged # <<>> => merged = <<"root", "system", system_name, "mount">>

C13_Witness ==
    /\ Len(written) = 2
    /\ written[1].stmt = "mount"
    /\ written[2].stmt = "umount"
    /\ merged # <<>>
    /\ system_name = "s2"
    /\ basis_name = "b2"

UmountReturnedOk ==
    \E k \in DOMAIN execLog : execLog[k].call = "umount" /\ execLog[k].res = "ok"

C15_AckAfterEffect ==
    /\ \A j \in DOMAIN acked :
         /\ acked[j].stmt = 0 => mountRes = "ok"
         /\ acked[j].stmt = 1 => umountRes = "ok"
    /\ acked # <<>> /\ umountRes = "none" => mounted

C15_Witness ==
    /\ Len(acked) = 1
    /\ acked[1].stmt = 0
    /\ mounted
    /\ pc = "work"

\* C16: within a session the k-th statement that gets a marker (from 0) gets marker k,
\* the counter has advanced by one for each, and no two statements share a marker.
C16_MarkersUniqueIncreasing ==
    /\ \A k \in DOMAIN markers :
         /\ markers[k].stmt = k - 1
         /\ markers[k].marker = ToDecimal(k - 1)
    /\ i = Len(markers)
    /\ Len(markers) <= Len(submitted)
    /\ \A j, k \in DOMAIN markers : j # k => markers[j].marker # markers[k].marker

C16_Witness ==
    /\ Len(markers) = 2
    /\ i = 2

\* C17: on the normal path of release the unmount is submitted and sudo_exec has
\* returned, then the shell's standard input is closed, and only then the parent
\* waits: it never waits while it holds the standard input open.
C17_CloseBeforeWait ==
    /\ pc = "rel_wait" => ~sudo_write /\ UmountReturnedOk
    /\ waited # "no" => ~sudo_write /\ UmountReturnedOk

C17_Witness ==
    /\ pc = "rel_wait"
    /\ child = "running"
    /\ 1 \in AckedStatements

\* C18: in system shell and system run, when the basis named by the system's config
\* has no directory or no config file, the command fails before any elevated process
\* is spawned and before any statement is submitted.
C18_NoMountWithoutBasis ==
    cmd \in {"system_shell", "system_run"} /\ basisCfg \in {"nodir", "absent"} =>
        /\ spawnCount = 0
        /\ child = "none"
        /\ submitted = <<>>
        /\ pc = "done" => result = "err"

C18_Witness ==
    /\ pc = "done"
    /\ cmd = "system_run"
    /\ sysCfg = "v1"
    /\ basisCfg = "absent"
    /\ result = "err"
    /\ spawnCount = 0

\* C19: when the shell, for each statement, goes on to write the marker or to exit,
\* every sudo_exec call returns and every release completes: the parent does not
\* stay blocked on the acknowledgment read or on the final wait.
C19_NoBlockForever ==
    /\ (call # "none") ~> (call = "none")
    /\ (pc = "exec_read") ~> (pc # "exec_read")
    /\ (pc = "rel_wait") ~> (guard = "released")
    /\ (pc = "release") ~> (guard = "released")

C19_Witness ==
    /\ guard = "released"
    /\ waited = "status"
    /\ Len(execLog) = 2
    /\ execLog[2].call = "umount"
    /\ execLog[2].marker

\* C20: `system run` with an empty command line ends with the error "Command line to
\* run in system is empty" (an error outcome, exit status 1, not a crash), and the
\* mount acquired before is released exactly once.
C20_EmptyCommandIsError ==
    pc = "done" /\ cmd = "system_run" /\ cmdLen = 0 /\ guard # "none" =>
        /\ result = "err"
        /\ exitCode = 1
        /\ guard = "released"
        /\ Count(submitted, "umount") = 1

\* C21: when mount_prefix fails after the elevated shell was spawned (the quoting,
\* a write, or the read of an acknowledgment line failed), no guard exists, no
\* unmount statement is submitted or written in that session, the shell's standard
\* input is closed, and the parent does not wait for the shell.
MountPrefixFailed ==
    /\ spawnCount > 0
    /\ \/ pc \in {"exit", "done"} /\ Len(execLog) = 0
       \/ \E k \in DOMAIN execLog : execLog[k].call = "mount" /\ execLog[k].res = "err"

C21_FailedAcquireLeavesNoGuard ==
    MountPrefixFailed =>
        /\ guard = "none"
        /\ result = "err"
        /\ pc \in {"exit", "done"}
        /\ Count(submitted, "umount") = 0
        /\ \A k \in DOMAIN written : written[k].stmt # "umount"
        /\ ~sudo_write
        /\ waited = "no"
        /\ child = "running" /\ stdin = <<>> => ENABLED ShellEndOfScript

\* a failed write with the shell gone, the session over
C21_Witness ==
    /\ pc = "done"
    /\ spawnCount = 1
    /\ Len(execLog) = 1
    /\ execLog[1].call = "mount"
    /\ execLog[1].res = "err"
    /\ guard = "none"
    /\ ~sudo_write
    /\ waited = "no"

\* C22: whenever a guard exists, the quoting of the unmount statement succeeds (its one
\* path argument was quoted as an argument of the mount statement during acquire), so
\* the release never aborts on its unchecked quoting.
C22_ReleaseQuotingNeverFails ==
    guard # "none" =>
        /\ ~quote_subcommand(UmountStatement).err
        /\ ~try_quote(MountStatement.target).err
        /\ MountStatement.target = UmountStatement.target
        /\ guard # "aborted"

\* the release has quoted the unmount statement and entered sudo_exec with it
C22_Witness ==
    /\ guard = "held"
    /\ call = "umount"
    /\ pc = "exec_line"
    /\ Count(submitted, "umount") = 1

====
